---- MODULE Spec2Model ----
(***************************************************************************)
(* Model of server.js (WoushouW/sskreports): the Telegram initData         *)
(* verifier validateTelegramData and the report endpoints that call it.    *)
(*                                                                         *)
(* src/server.js holds two revisions of the server (lines 1-309 and        *)
(* 311-680).  validateTelegramData is the same text in both (74-97 and     *)
(* 378-402); one operator models both.                                     *)
(*                                                                         *)
(* Cryptography is symbolic: a digest is the string that names its inputs, *)
(* so two digests are equal exactly when algorithm, key and message are    *)
(* equal (an ideal, collision-free hash).                                  *)
(***************************************************************************)
EXTENDS Integers, Sequences, FiniteSets, TLC

VARIABLES
    BOT_TOKEN,    \* process.env.BOT_TOKEN: Str(..) or Undefined
    ADMIN_IDS,    \* the administrator identifiers, a set of strings
    now,          \* the clock, Date.now()
    reportsJson,  \* the file reports.json: Missing or File(array of reports)
    uploads,      \* the names of the files in the directory uploads/
    telegramCalls,\* the sendMessage calls made to Telegram, in order
    sheetRows,    \* the append calls made to the spreadsheet, in order
    reqs,         \* the requests being handled, by slot
    served,       \* the number of requests received so far
    budget,       \* the number of requests the clients send in a behaviour
    deleted,      \* the ids the clients have had a DELETE answered ok: true for
    dispatch,     \* the request express is routing, and the layer it has reached
    wire,         \* verifier scenario: the initData value travelling to the server
    phase,        \* verifier scenario: "idle", "sent" or "checked"
    result,       \* verifier scenario: outcome of the last validateTelegramData call
    prevWire,     \* verifier scenario: the initData before the last alteration
    prevResult,   \* verifier scenario: the outcome validateTelegramData gave for prevWire
    alteration    \* verifier scenario: what the last alteration changed

serverVars ==
    <<ADMIN_IDS, now, reportsJson, uploads, telegramCalls, sheetRows, reqs, served,
      budget, deleted, dispatch>>
verifierVars == <<wire, phase, result, prevWire, prevResult, alteration>>
vars == <<BOT_TOKEN, serverVars, verifierVars>>

-----------------------------------------------------------------------------
(* JavaScript values *)

Undefined == [t |-> "undefined"]
Null == [t |-> "null"]
Str(s) == [t |-> "string", s |-> s]
Num(n) == [t |-> "number", n |-> n]
\* an identity object: a field the JSON text does not carry is Undefined
Obj(id, first_name, last_name, username) ==
    [t |-> "object", id |-> id, first_name |-> first_name,
     last_name |-> last_name, username |-> username]
\* a query-string-encoded string, held as its key/value pairs in order
QueryString(pairs) == [t |-> "string", pairs |-> pairs]

\* JavaScript truthiness, the test behind !x and x || y
Truthy(v) ==
    CASE v.t = "undefined" -> FALSE
      [] v.t = "null" -> FALSE
      [] v.t = "string" -> IF "pairs" \in DOMAIN v THEN v.pairs # <<>> ELSE v.s # ""
      [] v.t = "number" -> v.n # 0
      [] v.t = "object" -> TRUE

\* the completion of a piece of code: a returned value or a thrown exception
Return(v) == [threw |-> FALSE, value |-> v]
Throw(name) == [threw |-> TRUE, value |-> Str(name)]

-----------------------------------------------------------------------------
(* The texts and keys of the model *)

SECRET == "TESTSECRET"

UserAnn == "{\"id\":42,\"first_name\":\"Ann\"}"
UserRoot == "{\"id\":7,\"first_name\":\"Root\",\"last_name\":\"Adm\"}"
UserTruncated == "{\"id\":42,\"first_name\":\"An"
UserNull == "null"

\* JSON.parse on the texts of the model; any other text is not JSON
JSONParse(text) ==
    CASE text = UserAnn -> Return(Obj(Num(42), Str("Ann"), Undefined, Undefined))
      [] text = UserRoot -> Return(Obj(Num(7), Str("Root"), Str("Adm"), Undefined))
      [] text = "{}" -> Return(Obj(Undefined, Undefined, Undefined, Undefined))
      [] text = UserNull -> Return(Null)
      [] text = "1" -> Return(Num(1))
      [] text = "123" -> Return(Num(123))
      [] OTHER -> Throw("SyntaxError")

\* The keys of the model, in ascending order of their UTF-16 code units
\* ("B" is 0x42, "a" is 0x61).
CodeUnitOrder == <<"B", "a", "hash", "id", "user">>
\* The same keys in ascending order of String.prototype.localeCompare
\* (ICU root collation: letters compare by letter first, then lower case
\* before upper case).
LocaleOrder == <<"a", "B", "hash", "id", "user">>

Keys == {CodeUnitOrder[i] : i \in DOMAIN CodeUnitOrder}

IndexIn(order, k) == CHOOSE i \in DOMAIN order : order[i] = k

\* comparison of two keys by their places in an order: negative, zero or
\* positive
Compare(order, a, b) == IndexIn(order, a) - IndexIn(order, b)

-----------------------------------------------------------------------------
(* Library operations used by the verifier *)

\* new URLSearchParams(initData): the pairs of the string, in order
URLSearchParams(initData) == initData.pairs

\* urlParams.get(name): the value of the first pair with that key, or null
ParamsGet(params, name) ==
    IF \E i \in DOMAIN params : params[i][1] = name
    THEN LET i == CHOOSE j \in DOMAIN params :
                     /\ params[j][1] = name
                     /\ \A l \in 1..(j - 1) : params[l][1] # name
         IN Str(params[i][2])
    ELSE Null

\* urlParams.delete(name): every pair with that key removed
ParamsDelete(params, name) == SelectSeq(params, LAMBDA p : p[1] # name)

\* Array.prototype.sort by key under the comparator of an order: the sort
\* is stable, pairs with equal keys keep their input order
RECURSIVE InsertStable(_, _, _)
InsertStable(order, sorted, p) ==
    IF sorted = <<>> THEN <<p>>
    ELSE IF Compare(order, Head(sorted)[1], p[1]) <= 0
         THEN <<Head(sorted)>> \o InsertStable(order, Tail(sorted), p)
         ELSE <<p>> \o sorted

RECURSIVE SortPairs(_, _)
SortPairs(order, pairs) ==
    IF pairs = <<>> THEN <<>>
    ELSE InsertStable(order, SortPairs(order, SubSeq(pairs, 1, Len(pairs) - 1)),
                      pairs[Len(pairs)])

\* .map(([key, value]) => `${key}=${value}`).join('\n')
RECURSIVE JoinLines(_)
JoinLines(pairs) ==
    IF pairs = <<>> THEN ""
    ELSE IF Len(pairs) = 1 THEN pairs[1][1] \o "=" \o pairs[1][2]
    ELSE pairs[1][1] \o "=" \o pairs[1][2] \o "\n" \o JoinLines(Tail(pairs))

\* crypto.createHash('sha256').update(m).digest()
Sha256(m) == "sha256(" \o m \o ")"
\* crypto.createHmac('sha256', key).update(m).digest('hex')
HmacSha256(key, m) == "hmac-sha256[" \o key \o "](" \o m \o ")"

-----------------------------------------------------------------------------
(* validateTelegramData, server.js 74-97 (and 378-402) *)

\* faulty variant: the values are left out of the signed string
DataCheckStringKeysOnly(urlParams) ==
    JoinLines([i \in DOMAIN urlParams |->
                  <<SortPairs(LocaleOrder, urlParams)[i][1], "">>])

\* lines 81-84: the non-hash pairs sorted by key with localeCompare, joined
DataCheckString(urlParams) == JoinLines(SortPairs(LocaleOrder, urlParams))

\* line 86: the signing key; update(undefined) throws a TypeError
SecretKey ==
    IF BOT_TOKEN.t = "string" THEN Return(Str(Sha256(BOT_TOKEN.s)))
    ELSE Throw("TypeError")

\* faulty variant: the comparison is skipped when there is no hash
HashMismatchIfPresent(calculatedHash, hash) ==
    hash # Null /\ Str(calculatedHash) # hash

\* line 89: calculatedHash !== hash (strict inequality; hash may be null)
HashMismatch(calculatedHash, hash) == Str(calculatedHash) # hash

\* line 91: JSON.parse(urlParams.get('user') || '{}')
ParseUser(urlParams) ==
    LET text == ParamsGet(urlParams, "user")
    IN JSONParse(IF Truthy(text) THEN text.s ELSE "{}")

\* lines 77-92: the body of the try block
ValidateTry(initData) ==
    LET all == URLSearchParams(initData)
        hash == ParamsGet(all, "hash")
        urlParams == ParamsDelete(all, "hash")
        dataCheckString == DataCheckString(urlParams)
        secretKey == SecretKey
    IN IF secretKey.threw THEN secretKey
       ELSE LET calculatedHash == HmacSha256(secretKey.value.s, dataCheckString)
            IN IF HashMismatch(calculatedHash, hash) THEN Return(Null)
               ELSE ParseUser(urlParams)

\* faulty variant: no catch clause, the exception reaches the caller
TryWithoutCatch(completion) == completion

\* lines 76, 93-96: try { ... } catch (err) { return null; }
TryCatch(completion) == IF completion.threw THEN Return(Null) ELSE completion

\* lines 74-97
\* faulty variant: initData is taken only as long as the clock stands at 1
validateFreshTelegramData(initData) ==
    IF ~Truthy(initData) \/ now > 1 THEN Return(Null)
    ELSE TryCatch(ValidateTry(initData))

validateTelegramData(initData) ==
    IF ~Truthy(initData) THEN Return(Null)
    ELSE TryCatch(ValidateTry(initData))

-----------------------------------------------------------------------------
(* The issuer of initData, as the specification describes it (section 4.1) *)

\* steps 3-4: the canonical string, keys in byte-wise ordinal order
CanonicalString(pairs) == JoinLines(SortPairs(CodeUnitOrder, pairs))

\* step 5, Variant A: HMAC-SHA256 keyed with "WebAppData" over the secret
VariantAKey(secret) == HmacSha256("WebAppData", secret)
\* step 5, Variant B: SHA-256 of the secret
VariantBKey(secret) == Sha256(secret)

SigningKey(variant, secret) ==
    IF variant = "A" THEN VariantAKey(secret) ELSE VariantBKey(secret)

\* step 6: the digest the issuer attaches as `hash`
Digest(variant, secret, pairs) ==
    HmacSha256(SigningKey(variant, secret), CanonicalString(pairs))

\* a hash value that is no digest
JunkHash == "deadbeef"

-----------------------------------------------------------------------------
(* The server: state, requests and responses *)

MaxInFlight == 1     \* requests handled at the same time
MaxRequests == 1     \* requests received in a behaviour
MaxClock == 2        \* the last value of the clock


\* process.env.TELEGRAM_CHAT_ID and process.env.SHEET_ID, both configured
CHAT_ID == Str("-1001")
SHEET_ID == Str("sheet")

\* the error texts of the responses (transliterated)
ErrInvalid == "Nediysni dani"                       \* line 174
ErrInvalidUser == "Nediysni dani korystuvacha"      \* line 182
ErrParkStation == "Park ta stantsiya obovyazkovi"   \* line 185
ErrSave == "Pomylka zberezhennya"                   \* line 217
ErrNoAccess == "Nemaye dostupu"                     \* lines 225, 240, 269
ErrNotFound == "Zvit ne znaydeno"                   \* lines 246, 275
ErrDelete == "Pomylka vydalennya"                   \* line 261
ErrUpdate == "Pomylka onovlennya"                   \* line 286

\* res.json({ ok: false, error })
Denied(error) == [ok |-> FALSE, error |-> error]
NoResponse == [pending |-> TRUE]

\* String(x)
StringOf(v) ==
    CASE v.t = "number" -> ToString(v.n)
      [] v.t = "string" -> v.s
      [] v.t = "undefined" -> "undefined"
      [] v.t = "null" -> "null"
      [] v.t = "object" -> "[object Object]"

\* user.name for a value that passed the !user test
Field(v, name) == IF v.t = "object" THEN v[name] ELSE Undefined

\* ADMIN_IDS.includes(String(user.id)), lines 175, 224, 239, 268
IsAdmin(user) == StringOf(Field(user, "id")) \in ADMIN_IDS

\* `DEF-${Date.now()}`, line 187
ReportId(time) == "DEF-" \o ToString(time)

\* new Date().toISOString()
ISOString(time) == "T" \o ToString(time)

\* `${user.first_name || ''} ${user.last_name || ''}`.trim(), line 194
UserName(user) ==
    LET first == IF Truthy(Field(user, "first_name"))
                 THEN StringOf(Field(user, "first_name")) ELSE ""
        last == IF Truthy(Field(user, "last_name"))
                THEN StringOf(Field(user, "last_name")) ELSE ""
    IN IF last = "" THEN first
       ELSE IF first = "" THEN last
       ELSE first \o " " \o last

\* multer's file name `${Date.now()}-${Math.round(Math.random() * 1e9)}${ext}`,
\* lines 33-36; the random part is taken to differ from file to file
FileName(time, serial, k) == [time |-> time, rnd |-> <<serial, k>>]

\* `${base}/uploads/${f.filename}`, line 189
Base == "https://host"
ImageUrl(filename) == [base |-> Base, filename |-> filename]
\* url.split('/').pop(), line 251
FileOfUrl(url) == url.filename

\* reports.json
Missing == [t |-> "missing"]
File(items) == [t |-> "file", items |-> items]

\* a report stored by an earlier run of the server, with one image
OldFile == FileName(0, 0, 1)
OldReport ==
    [id |-> ReportId(0), user_id |-> Num(42), user_name |-> "Ann",
     title |-> Str("T0"), description |-> Undefined,
     park |-> Str("P1"), station |-> Str("S1"),
     incident_at |-> Str(ISOString(0)), created_at |-> Str(ISOString(0)),
     image_urls |-> <<ImageUrl(OldFile)>>, updated_at |-> Undefined]

\* a report created in the same millisecond as OldReport (line 187 gives both
\* the same id), and one created later
TwinReport ==
    [OldReport EXCEPT !.title = Str("T0b"), !.description = Str("D0"),
                      !.image_urls = <<>>]
LaterReport ==
    [OldReport EXCEPT !.id = ReportId(1), !.user_name = "Root Adm",
                      !.user_id = Num(7), !.image_urls = <<>>,
                      !.incident_at = Str(ISOString(1)),
                      !.created_at = Str(ISOString(1))]

\* the initData values of the requests: absent, signed by the issuer with
\* the server's key derivation (a non-administrator, an administrator, no
\* user pair), and a forged signature
SignedB(pairs) == QueryString(pairs \o <<<<"hash", Digest("B", SECRET, pairs)>>>>)
BlobAnn == SignedB(<<<<"id", "123">>, <<"user", UserAnn>>>>)
BlobRoot == SignedB(<<<<"id", "123">>, <<"user", UserRoot>>>>)
BlobNoUser == SignedB(<<<<"id", "123">>>>)
BlobForged == QueryString(<<<<"user", UserRoot>>, <<"hash", JunkHash>>>>)
RequestBlobs == {Undefined, BlobAnn, BlobRoot, BlobNoUser, BlobForged}

\* express routes no request
NotRouting ==
    [st |-> "idle", method |-> "", path |-> <<>>, layer |-> 0, by |-> "",
     resp |-> NoResponse]

\* a slot that handles no request
IdleRequest ==
    [pc |-> "idle", ep |-> "", initData |-> Undefined,
     nfiles |-> 0, files |-> <<>>,
     park |-> Undefined, station |-> Undefined,
     title |-> Undefined, description |-> Undefined, id |-> "",
     user |-> Undefined, data |-> <<>>, reports |-> <<>>, idx |-> 0,
     report |-> Undefined, todo |-> <<>>, relays |-> <<>>,
     resp |-> NoResponse]

Init ==
    /\ ADMIN_IDS = {"7"}
    /\ now = 1
    /\ \/ BOT_TOKEN = Undefined /\ reportsJson = Missing /\ uploads = {}
       \/ BOT_TOKEN = Str(SECRET) /\ reportsJson = Missing /\ uploads = {}
       \/ /\ BOT_TOKEN = Str(SECRET)
          /\ reportsJson \in {File(<<OldReport>>),
                              File(<<OldReport, TwinReport, LaterReport>>)}
          /\ uploads = {OldFile}
    /\ telegramCalls = <<>>
    /\ sheetRows = <<>>
    /\ reqs = [s \in 1..MaxInFlight |-> IdleRequest]
    /\ served = 0
    /\ budget = MaxRequests
    /\ deleted = {}
    /\ dispatch = NotRouting
    /\ wire = Undefined
    /\ phase = "off"
    /\ result = Return(Undefined)
    /\ prevWire = Undefined
    /\ prevResult = Return(Undefined)
    /\ alteration = "none"

Slots == DOMAIN reqs

\* the request of slot s moves to the given record; nothing else of the
\* request table changes.  A response is on its way out (pc "done") only
\* within the step that sent it: Finish clears it before the next step.
Step(s, r) ==
    /\ \A o \in Slots : reqs[o].pc # "done"
    /\ reqs' = [reqs EXCEPT ![s] = r]

\* res.json(body): the request is answered
Answered(r, body) ==
    [IdleRequest EXCEPT !.pc = "done", !.ep = r.ep, !.initData = r.initData,
                        !.files = r.files, !.user = r.user,
                        !.relays = r.relays, !.resp = body]

\* slot s takes the next request
FreeSlot(s) ==
    /\ served < budget
    /\ served' = served + 1
    /\ reqs[s].pc = "idle"
    /\ \A o \in 1..(s - 1) : reqs[o].pc # "idle"

\* a request as its handler finds it: req.query / req.body / req.params
Arrived(ep, initData, body) ==
    [IdleRequest EXCEPT
        !.pc = "handler", !.ep = ep, !.initData = initData,
        !.nfiles = body.nfiles, !.park = body.park, !.station = body.station,
        !.title = body.title, !.description = body.description,
        !.id = body.id]

NoBody ==
    [nfiles |-> 0, park |-> Undefined, station |-> Undefined,
     title |-> Undefined, description |-> Undefined, id |-> ""]

\* A request is its initData and its body.  The requests of each endpoint:
\* every initData on a plain body, and more bodies for the callers that
\* get past the checks.
FullBody == [NoBody EXCEPT !.park = Str("P1"), !.station = Str("S1"),
                           !.title = Str("T1")]

IsAdminRequests == {<<d, NoBody>> : d \in RequestBlobs}

CreateRequests ==
    {<<d, [FullBody EXCEPT !.nfiles = 1]>> : d \in RequestBlobs}
        \cup {<<BlobAnn, FullBody>>, <<BlobAnn, [FullBody EXCEPT !.park = Undefined]>>,
              <<BlobAnn, [FullBody EXCEPT !.station = Str("")]>>}

ListRequests == {<<d, NoBody>> : d \in RequestBlobs}

\* the ids that delete and update requests name
PathIds == {ReportId(0), ReportId(1)}

DeleteRequests ==
    {<<d, [NoBody EXCEPT !.id = ReportId(0)]>> : d \in RequestBlobs}
        \cup {<<BlobRoot, [NoBody EXCEPT !.id = id]>> : id \in PathIds}

UpdateRequests ==
    {<<d, [NoBody EXCEPT !.id = ReportId(0), !.title = Str("T2")]>> :
        d \in RequestBlobs}
        \cup {<<BlobRoot, [NoBody EXCEPT !.id = id, !.title = Str("T2")]>> :
                  id \in PathIds}
        \cup {<<BlobRoot, [NoBody EXCEPT !.id = ReportId(0),
                                         !.description = Str("D2")]>>}

\* the response has been sent; the slot is free again
Finish ==
    \E s \in Slots :
        /\ reqs[s].pc = "done"
        /\ reqs' = [reqs EXCEPT ![s] = IdleRequest]
        /\ UNCHANGED <<BOT_TOKEN, ADMIN_IDS, now, reportsJson, uploads,
                       telegramCalls, sheetRows, served, budget, deleted,
                       dispatch, verifierVars>>

\* Date.now() and new Date(): the clock is read as time, no earlier than
\* the last reading
DateNow(time) ==
    /\ time \in now..MaxClock
    /\ now' = time

-----------------------------------------------------------------------------
(* The handlers, one action for each stretch of code between two awaits *)

\* what no handler step changes
Config == <<BOT_TOKEN, ADMIN_IDS, budget, dispatch, verifierVars>>

\* reports.findIndex(r => r.id === id), 0 standing for -1
\* findLastIndex in place of findIndex
FindLastIndex(reports, id) ==
    IF \E i \in DOMAIN reports : reports[i].id = id
    THEN CHOOSE i \in DOMAIN reports :
             /\ reports[i].id = id
             /\ \A j \in (i + 1)..Len(reports) : reports[j].id # id
    ELSE 0

\* reports.findIndex(r => r.id === req.params.id), lines 245, 274, with 0
\* for -1
FindIndex(reports, id) ==
    IF \E i \in DOMAIN reports : reports[i].id = id
    THEN CHOOSE i \in DOMAIN reports :
             /\ reports[i].id = id
             /\ \A j \in 1..(i - 1) : reports[j].id # id
    ELSE 0

\* reports.splice(idx, 1)
Splice(reports, idx) ==
    [i \in 1..(Len(reports) - 1) |->
        IF i < idx THEN reports[i] ELSE reports[i + 1]]

\* the array as stored, without reverse()
Unreversed(reports) == reports

\* reports.slice().reverse()
Reverse(reports) ==
    [i \in 1..Len(reports) |-> reports[Len(reports) + 1 - i]]

\* await fs.readFile('reports.json', 'utf8') and JSON.parse(data): the
\* array read, or an exception when the file is missing or the read fails
ReadReports(ioOk) ==
    IF ioOk /\ reportsJson.t = "file" THEN Return(reportsJson.items)
    ELSE Throw("Error")

\* const user = validateTelegramData(...): the request with its identity
Identified(r) == [r EXCEPT !.user = validateTelegramData(r.initData).value]

\* the test user === undefined in place of !user
UnauthenticatedUndefined(r) == r.user = Undefined

\* !user, lines 174, 182
Unauthenticated(r) == ~Truthy(r.user)

\* the test !user alone
NotAdministratorAnyUser(r) == ~Truthy(r.user)

\* !user || !ADMIN_IDS.includes(String(user.id)), lines 224, 239, 268
NotAdministrator(r) == ~Truthy(r.user) \/ ~IsAdmin(r.user)

\* lines 223-226, 238-241 and 267-270: the request is answered at once
\* unless an administrator sent it
AdminOnly(r) ==
    IF NotAdministrator(r)
    THEN Answered(r, Denied(ErrNoAccess))
    ELSE [r EXCEPT !.pc = "read"]

\* GET /api/is-admin, lines 172-177, for a request out of the given ones
IsAdminRoute(requests) ==
    \E s \in Slots, q \in requests :
        /\ FreeSlot(s)
        /\ LET r == Identified(Arrived("is-admin", q[1], q[2]))
           IN IF Unauthenticated(r)
              THEN Step(s, Answered(r, Denied(ErrInvalid)))
              ELSE Step(s, Answered(r, [ok |-> TRUE, is_admin |-> IsAdmin(r.user)]))
        /\ UNCHANGED <<Config, deleted, now, reportsJson, uploads, telegramCalls, sheetRows>>

IsAdminHandler == IsAdminRoute(IsAdminRequests)

\* upload.array('images', 10), lines 27-43 and 180: multer stores the
\* image files of the request before the handler runs
UploadRoute(requests) ==
    \E s \in Slots, q \in requests, time \in 1..MaxClock :
        /\ FreeSlot(s)
        /\ DateNow(time)
        /\ LET files == [k \in 1..q[2].nfiles |-> FileName(time, served + 1, k)]
           IN /\ uploads' = uploads \cup {files[k] : k \in DOMAIN files}
              /\ Step(s, [Arrived("create", q[1], q[2]) EXCEPT !.files = files])
        /\ UNCHANGED <<Config, deleted, reportsJson, telegramCalls, sheetRows>>

MulterUpload == UploadRoute(CreateRequests)

\* the report built at lines 187-198
NewReport(r, time) ==
    [id |-> ReportId(time), user_id |-> Field(r.user, "id"),
     user_name |-> UserName(r.user),
     title |-> r.title, description |-> r.description,
     park |-> r.park, station |-> r.station,
     incident_at |-> Str(ISOString(time)), created_at |-> Str(ISOString(time)),
     image_urls |-> [k \in DOMAIN r.files |-> ImageUrl(r.files[k])],
     updated_at |-> Undefined]

\* the test !park && !station in place of !park || !station
CreateHandlerBothMissing ==
    \E s \in Slots, time \in 1..MaxClock :
        /\ reqs[s].pc = "handler"
        /\ DateNow(time)
        /\ LET r == Identified(reqs[s])
           IN IF Unauthenticated(r)
              THEN Step(s, Answered(r, Denied(ErrInvalidUser)))
              ELSE IF ~Truthy(r.park) /\ ~Truthy(r.station)
              THEN Step(s, Answered(r, Denied(ErrParkStation)))
              ELSE Step(s, [r EXCEPT !.pc = "read", !.report = NewReport(r, time)])
        /\ UNCHANGED <<Config, deleted, served, reportsJson, uploads, telegramCalls,
                       sheetRows>>

\* POST /api/report, lines 181-198: up to the first await
CreateHandler ==
    \E s \in Slots, time \in 1..MaxClock :
        /\ reqs[s].pc = "handler"
        /\ DateNow(time)
        /\ LET r == Identified(reqs[s])
           IN IF Unauthenticated(r)
              THEN Step(s, Answered(r, Denied(ErrInvalidUser)))
              ELSE IF ~Truthy(r.park) \/ ~Truthy(r.station)
              THEN Step(s, Answered(r, Denied(ErrParkStation)))
              ELSE Step(s, [r EXCEPT !.pc = "read", !.report = NewReport(r, time)])
        /\ UNCHANGED <<Config, deleted, served, reportsJson, uploads, telegramCalls, sheetRows>>

\* lines 202-208: the store is read (an empty array on failure) and the
\* report pushed
CreateRead ==
    \E s \in Slots, ioOk \in BOOLEAN :
        /\ reqs[s].pc = "read" /\ reqs[s].ep = "create"
        /\ LET read == ReadReports(ioOk)
               reports == IF read.threw THEN <<>> ELSE read.value
           IN Step(s, [reqs[s] EXCEPT !.pc = "write",
                          !.reports = Append(reports, reqs[s].report)])
        /\ UNCHANGED <<Config, deleted, now, served, reportsJson, uploads, telegramCalls, sheetRows>>

\* line 209: the store is written; a failure goes to the catch of 215-218
CreateWrite ==
    \E s \in Slots, ioOk \in BOOLEAN :
        /\ reqs[s].pc = "write" /\ reqs[s].ep = "create"
        /\ IF ioOk
           THEN /\ reportsJson' = File(reqs[s].reports)
                /\ Step(s, [reqs[s] EXCEPT !.pc = "telegram"])
           ELSE /\ Step(s, Answered(reqs[s], Denied(ErrSave)))
                /\ UNCHANGED reportsJson
        /\ UNCHANGED <<Config, deleted, now, served, uploads, telegramCalls, sheetRows>>

\* what sendToTelegram and saveToSheets return, lines 101, 132, 135, 141,
\* 162, 165: { ok: false } when the relay is not configured or the call
\* fails
Relayed(to, ioOk) ==
    LET configured == IF to = "telegram"
                      THEN Truthy(BOT_TOKEN) /\ Truthy(CHAT_ID)
                      ELSE Truthy(SHEET_ID)
    IN [to |-> to, ok |-> configured /\ ioOk]

\* sendToTelegram without its try and catch: a failed call throws into the
\* catch of lines 215-218
CreateTelegramThrowing ==
    \E s \in Slots, ioOk \in BOOLEAN :
        /\ reqs[s].pc = "telegram"
        /\ IF Truthy(BOT_TOKEN) /\ Truthy(CHAT_ID)
           THEN telegramCalls' = Append(telegramCalls,
                    [report |-> reqs[s].report.id,
                     photos |-> Len(reqs[s].files)])
           ELSE UNCHANGED telegramCalls
        /\ IF Relayed("telegram", ioOk).ok \/ ~Truthy(BOT_TOKEN)
           THEN Step(s, [reqs[s] EXCEPT !.pc = "sheets",
                            !.relays = Append(@, Relayed("telegram", ioOk))])
           ELSE Step(s, Answered(reqs[s], Denied(ErrSave)))
        /\ UNCHANGED <<Config, deleted, now, served, reportsJson, uploads, sheetRows>>

\* line 211 and sendToTelegram, lines 100-137: the message is sent when the
\* bot is configured; the call succeeds or fails (lines 133-136), and the
\* handler does not look at the outcome
CreateTelegram ==
    \E s \in Slots, ioOk \in BOOLEAN :
        /\ reqs[s].pc = "telegram"
        /\ IF Truthy(BOT_TOKEN) /\ Truthy(CHAT_ID)
           THEN telegramCalls' = Append(telegramCalls,
                    [report |-> reqs[s].report.id,
                     photos |-> Len(reqs[s].files)])
           ELSE UNCHANGED telegramCalls
        /\ Step(s, [reqs[s] EXCEPT !.pc = "sheets",
                       !.relays = Append(@, Relayed("telegram", ioOk))])
        /\ UNCHANGED <<Config, deleted, now, served, reportsJson, uploads, sheetRows>>

\* lines 212-214 and saveToSheets, lines 140-167: the append is called when
\* the spreadsheet is configured and succeeds or fails (lines 163-166); the
\* handler does not look at the outcome and answers the request
CreateSheets ==
    \E s \in Slots, ioOk \in BOOLEAN :
        /\ reqs[s].pc = "sheets"
        /\ IF Truthy(SHEET_ID)
           THEN sheetRows' = Append(sheetRows,
                    [report |-> reqs[s].report.id])
           ELSE UNCHANGED sheetRows
        /\ Step(s, Answered([reqs[s] EXCEPT
                                !.relays = Append(@, Relayed("sheets", ioOk))],
                            [ok |-> TRUE, id |-> reqs[s].report.id]))
        /\ UNCHANGED <<Config, deleted, now, served, reportsJson, uploads, telegramCalls>>

\* GET /api/reports, lines 223-226
ListRoute(requests) ==
    \E s \in Slots, q \in requests :
        /\ FreeSlot(s)
        /\ Step(s, AdminOnly(Identified(Arrived("list", q[1], q[2]))))
        /\ UNCHANGED <<Config, deleted, now, reportsJson, uploads, telegramCalls, sheetRows>>

ListHandler == ListRoute(ListRequests)

\* lines 227-233
ListRead ==
    \E s \in Slots, ioOk \in BOOLEAN :
        /\ reqs[s].pc = "read" /\ reqs[s].ep = "list"
        /\ LET read == ReadReports(ioOk)
           IN IF read.threw
              THEN Step(s, Answered(reqs[s], [ok |-> TRUE, items |-> <<>>]))
              ELSE Step(s, Answered(reqs[s],
                               [ok |-> TRUE, items |-> Reverse(read.value)]))
        /\ UNCHANGED <<Config, deleted, now, served, reportsJson, uploads, telegramCalls, sheetRows>>

\* DELETE /api/report/:id, lines 238-241
DeleteRoute(requests) ==
    \E s \in Slots, q \in requests :
        /\ FreeSlot(s)
        /\ Step(s, AdminOnly(Identified(Arrived("delete", q[1], q[2]))))
        /\ UNCHANGED <<Config, deleted, now, reportsJson, uploads, telegramCalls, sheetRows>>

DeleteHandler == DeleteRoute(DeleteRequests)

\* lines 256-257: the report is spliced out and the write begins
Spliced(r) == [r EXCEPT !.pc = "write", !.reports = Splice(r.reports, r.idx)]

\* lines 242-249: the store is read and the report looked up
DeleteRead ==
    \E s \in Slots, ioOk \in BOOLEAN :
        /\ reqs[s].pc = "read" /\ reqs[s].ep = "delete"
        /\ LET read == ReadReports(ioOk)
               idx == FindIndex(read.value, reqs[s].id)
               r == [reqs[s] EXCEPT !.data = read.value,
                                    !.reports = read.value, !.idx = idx]
           IN IF read.threw
              THEN Step(s, Answered(reqs[s], Denied(ErrDelete)))
              ELSE IF idx = 0
              THEN Step(s, Answered(reqs[s], Denied(ErrNotFound)))
              ELSE IF read.value[idx].image_urls = <<>>
              THEN Step(s, Spliced(r))
              ELSE Step(s, [r EXCEPT !.pc = "unlink",
                               !.todo = read.value[idx].image_urls])
        /\ UNCHANGED <<Config, deleted, now, served, reportsJson, uploads, telegramCalls, sheetRows>>

\* lines 250-254: one image file is unlinked (a failure is ignored)
DeleteUnlink ==
    \E s \in Slots :
        /\ reqs[s].pc = "unlink"
        /\ uploads' = uploads \ {FileOfUrl(Head(reqs[s].todo))}
        /\ LET r == [reqs[s] EXCEPT !.todo = Tail(reqs[s].todo)]
           IN IF r.todo = <<>> THEN Step(s, Spliced(r)) ELSE Step(s, r)
        /\ UNCHANGED <<Config, deleted, now, served, reportsJson, telegramCalls, sheetRows>>

\* lines 257-262
DeleteWrite ==
    \E s \in Slots, ioOk \in BOOLEAN :
        /\ reqs[s].pc = "write" /\ reqs[s].ep = "delete"
        /\ IF ioOk
           THEN /\ reportsJson' = File(reqs[s].reports)
                /\ Step(s, Answered(reqs[s], [ok |-> TRUE]))
                /\ deleted' = deleted \cup {reqs[s].id}
           ELSE /\ Step(s, Answered(reqs[s], Denied(ErrDelete)))
                /\ UNCHANGED <<reportsJson, deleted>>
        /\ UNCHANGED <<Config, now, served, uploads, telegramCalls, sheetRows>>

\* PUT /api/report/:id, lines 267-270
UpdateRoute(requests) ==
    \E s \in Slots, q \in requests :
        /\ FreeSlot(s)
        /\ Step(s, AdminOnly(Identified(Arrived("update", q[1], q[2]))))
        /\ UNCHANGED <<Config, deleted, now, reportsJson, uploads, telegramCalls, sheetRows>>

UpdateHandler == UpdateRoute(UpdateRequests)

\* the fields assigned without the tests of lines 278-279
UpdatedUnconditionally(report, r, time) ==
    [report EXCEPT
        !.title = r.title,
        !.description = r.description,
        !.updated_at = Str(ISOString(time))]

\* lines 277-280: title and description when supplied, and updated_at
Updated(report, r, time) ==
    [report EXCEPT
        !.title = IF r.title # Undefined THEN r.title ELSE @,
        !.description = IF r.description # Undefined THEN r.description ELSE @,
        !.updated_at = Str(ISOString(time))]

\* lines 271-280
UpdateRead ==
    \E s \in Slots, ioOk \in BOOLEAN, time \in 1..MaxClock :
        /\ reqs[s].pc = "read" /\ reqs[s].ep = "update"
        /\ DateNow(time)
        /\ LET read == ReadReports(ioOk)
               idx == FindIndex(read.value, reqs[s].id)
           IN IF read.threw
              THEN Step(s, Answered(reqs[s], Denied(ErrUpdate)))
              ELSE IF idx = 0
              THEN Step(s, Answered(reqs[s], Denied(ErrNotFound)))
              ELSE Step(s, [reqs[s] EXCEPT !.pc = "write", !.idx = idx,
                               !.data = read.value,
                               !.reports = [read.value EXCEPT
                                   ![idx] = Updated(read.value[idx], reqs[s], time)]])
        /\ UNCHANGED <<Config, deleted, served, reportsJson, uploads, telegramCalls, sheetRows>>

\* lines 282-287
UpdateWrite ==
    \E s \in Slots, ioOk \in BOOLEAN :
        /\ reqs[s].pc = "write" /\ reqs[s].ep = "update"
        /\ IF ioOk
           THEN /\ reportsJson' = File(reqs[s].reports)
                /\ Step(s, Answered(reqs[s], [ok |-> TRUE]))
           ELSE /\ Step(s, Answered(reqs[s], Denied(ErrUpdate)))
                /\ UNCHANGED reportsJson
        /\ UNCHANGED <<Config, deleted, now, served, uploads, telegramCalls, sheetRows>>

Next ==
    \/ IsAdminHandler
    \/ MulterUpload
    \/ CreateHandler
    \/ CreateRead
    \/ CreateWrite
    \/ CreateTelegram
    \/ CreateSheets
    \/ ListHandler
    \/ ListRead
    \/ DeleteHandler
    \/ DeleteRead
    \/ DeleteUnlink
    \/ DeleteWrite
    \/ UpdateHandler
    \/ UpdateRead
    \/ UpdateWrite
    \/ Finish

Spec == Init /\ [][Next]_vars

-----------------------------------------------------------------------------------------------------------------------------------------------------
(* Authenticated clients and a server that holds one report: the clients   *)
(* send their requests one after another (SessionSpec) or all at the same  *)
(* time (RaceSpec).                                                        *)

SessionLength == 2   \* requests of a session
Racers == 2          \* clients racing, each sending one request

\* the server of the clients, with the given numbers of slots and requests
ClientInit(slots, requests) ==
    /\ BOT_TOKEN = Str(SECRET)
    /\ ADMIN_IDS = {"7"}
    /\ now = 1
    /\ reportsJson = File(<<OldReport>>)
    /\ uploads = {OldFile}
    /\ telegramCalls = <<>>
    /\ sheetRows = <<>>
    /\ reqs = [s \in 1..slots |-> IdleRequest]
    /\ served = 0
    /\ budget = requests
    /\ deleted = {}
    /\ dispatch = NotRouting
    /\ wire = Undefined
    /\ phase = "off"
    /\ result = Return(Undefined)
    /\ prevWire = Undefined
    /\ prevResult = Return(Undefined)
    /\ alteration = "none"

\* the requests of the clients
ClientIsAdminRequests == {<<BlobAnn, NoBody>>, <<BlobForged, NoBody>>}
ClientCreateRequests == {<<BlobAnn, [FullBody EXCEPT !.nfiles = 1]>>}
ClientListRequests == {<<BlobRoot, NoBody>>}
ClientDeleteRequests == {<<BlobRoot, [NoBody EXCEPT !.id = ReportId(0)]>>}
ClientUpdateRequests ==
    {<<BlobRoot, [NoBody EXCEPT !.id = ReportId(0), !.title = Str("T2")]>>}

ClientIsAdmin == IsAdminRoute(ClientIsAdminRequests)
ClientUpload == UploadRoute(ClientCreateRequests)
ClientList == ListRoute(ClientListRequests)
ClientDelete == DeleteRoute(ClientDeleteRequests)
ClientUpdate == UpdateRoute(ClientUpdateRequests)

ClientNext ==
    \/ ClientIsAdmin
    \/ ClientUpload
    \/ CreateHandler
    \/ CreateRead
    \/ CreateWrite
    \/ CreateTelegram
    \/ CreateSheets
    \/ ClientList
    \/ ListRead
    \/ ClientDelete
    \/ DeleteRead
    \/ DeleteUnlink
    \/ DeleteWrite
    \/ ClientUpdate
    \/ UpdateRead
    \/ UpdateWrite
    \/ Finish

SessionInit == ClientInit(MaxInFlight, SessionLength)
SessionSpec == SessionInit /\ [][ClientNext]_vars

RaceInit == ClientInit(Racers, Racers)
RaceSpec == RaceInit /\ [][ClientNext]_vars

-----------------------------------------------------------------------------
(* The verifier scenario: blobs are issued or crafted, validated, altered  *)
(* once and validated again.                                               *)

MaxPairs == 3

\* the non-hash pairs a blob is built from
PairPool ==
    {<<"user", UserAnn>>, <<"user", UserTruncated>>,
     <<"id", "123">>, <<"B", "1">>, <<"a", "1">>}

DataKeys == Keys \ {"hash"}
\* the values an alteration may put in place of another
Values == {p[2] : p \in PairPool} \cup {UserRoot, UserNull}

Payloads == UNION {[1..n -> PairPool] : n \in 0..MaxPairs}

\* the values a `hash` pair may carry for the given non-hash pairs
HashValues(pairs) ==
    {Digest("A", SECRET, pairs), Digest("B", SECRET, pairs),
     HmacSha256(VariantBKey(SECRET), DataCheckString(pairs)), JunkHash}

NoResult == Return(Undefined)

Replace(pairs, i, p) == [pairs EXCEPT ![i] = p]

VInit ==
    /\ BOT_TOKEN \in {Str(SECRET), Undefined}
    /\ ADMIN_IDS = {"7"}
    /\ now = 1
    /\ reportsJson = Missing
    /\ uploads = {}
    /\ telegramCalls = <<>>
    /\ sheetRows = <<>>
    /\ reqs = [s \in 1..MaxInFlight |-> IdleRequest]
    /\ served = 0
    /\ budget = MaxRequests
    /\ deleted = {}
    /\ dispatch = NotRouting
    /\ wire = Undefined
    /\ phase = "idle"
    /\ result = NoResult
    /\ prevWire = Undefined
    /\ prevResult = NoResult
    /\ alteration = "none"

\* a request without initData
SendAbsent ==
    /\ phase = "idle"
    /\ wire' = Undefined
    /\ phase' = "sent"
    /\ result' = NoResult
    /\ prevWire' = Undefined
    /\ prevResult' = NoResult
    /\ alteration' = "none"
    /\ UNCHANGED <<BOT_TOKEN, serverVars>>

\* a blob without a `hash` pair (the empty string when there are no pairs)
SendUnsigned ==
    /\ phase = "idle"
    /\ \E pairs \in Payloads : wire' = QueryString(pairs)
    /\ phase' = "sent"
    /\ result' = NoResult
    /\ prevWire' = Undefined
    /\ prevResult' = NoResult
    /\ alteration' = "none"
    /\ UNCHANGED <<BOT_TOKEN, serverVars>>

\* a blob with a `hash` pair: signed by the issuer (either variant) or not
SendSigned ==
    /\ phase = "idle"
    /\ \E pairs \in Payloads : \E h \in HashValues(pairs) :
           wire' = QueryString(pairs \o <<<<"hash", h>>>>)
    /\ phase' = "sent"
    /\ result' = NoResult
    /\ prevWire' = Undefined
    /\ prevResult' = NoResult
    /\ alteration' = "none"
    /\ UNCHANGED <<BOT_TOKEN, serverVars>>

\* the server validates what arrived
Check ==
    /\ phase = "sent"
    /\ result' = validateTelegramData(wire)
    /\ phase' = "checked"
    /\ UNCHANGED <<BOT_TOKEN, serverVars, wire, prevWire, prevResult, alteration>>

Altered(kind, pairs) ==
    /\ phase = "checked"
    /\ alteration = "none"
    /\ wire.t = "string"
    /\ wire' = QueryString(pairs)
    /\ prevWire' = wire
    /\ prevResult' = result
    /\ alteration' = kind
    /\ phase' = "sent"
    /\ result' = NoResult
    /\ UNCHANGED <<BOT_TOKEN, serverVars>>

\* one key of a non-hash pair is changed to another non-hash key
AlterKey ==
    /\ wire.t = "string"
    /\ \E i \in DOMAIN wire.pairs : \E k \in DataKeys :
           /\ wire.pairs[i][1] \notin {"hash", k}
           /\ Altered("key", Replace(wire.pairs, i, <<k, wire.pairs[i][2]>>))

\* one value of a non-hash pair is changed
AlterValue ==
    /\ wire.t = "string"
    /\ \E i \in DOMAIN wire.pairs : \E v \in Values :
           /\ wire.pairs[i][1] # "hash"
           /\ wire.pairs[i][2] # v
           /\ Altered("value", Replace(wire.pairs, i, <<wire.pairs[i][1], v>>))

\* the value of the hash pair is changed, the other pairs kept
AlterHash ==
    /\ wire.t = "string"
    /\ \E i \in DOMAIN wire.pairs :
       \E h \in HashValues(ParamsDelete(wire.pairs, "hash")) :
           /\ wire.pairs[i][1] = "hash"
           /\ wire.pairs[i][2] # h
           /\ Altered("hash", Replace(wire.pairs, i, <<"hash", h>>))

\* two neighbouring pairs change places
AlterOrder ==
    /\ wire.t = "string"
    /\ \E i \in 1..(Len(wire.pairs) - 1) :
           /\ wire.pairs[i] # wire.pairs[i + 1]
           /\ Altered("order", [wire.pairs EXCEPT ![i] = wire.pairs[i + 1],
                                                  ![i + 1] = wire.pairs[i]])

\* the exchange is over; the next one starts afresh
Close ==
    /\ phase = "checked"
    /\ phase' = "idle"
    /\ wire' = Undefined
    /\ result' = NoResult
    /\ prevWire' = Undefined
    /\ prevResult' = NoResult
    /\ alteration' = "none"
    /\ UNCHANGED <<BOT_TOKEN, serverVars>>

VNext ==
    \/ Close
    \/ SendAbsent
    \/ SendUnsigned
    \/ SendSigned
    \/ Check
    \/ AlterKey
    \/ AlterValue
    \/ AlterHash
    \/ AlterOrder

VerifierSpec == VInit /\ [][VNext]_vars

-----------------------------------------------------------------------------
(* Properties of the verifier, checked under VerifierSpec *)

Rejected == Return(Null)

NonHashPairs(w) == ParamsDelete(w.pairs, "hash")

HasKey(w, k) == \E i \in DOMAIN w.pairs : w.pairs[i][1] = k

\* the blob is a mapping: no key occurs twice
DistinctKeys(w) ==
    \A i, j \in DOMAIN w.pairs : i # j => w.pairs[i][1] # w.pairs[j][1]

\* the `hash` value is the digest of the canonical string under the key the
\* server is configured with
CorrectlySigned(w) ==
    /\ w.t = "string"
    /\ ~SecretKey.threw
    /\ ParamsGet(w.pairs, "hash")
         = Str(HmacSha256(SecretKey.value.s, CanonicalString(NonHashPairs(w))))

\* the `user` value encodes an identity object
EncodesIdentity(w) ==
    /\ HasKey(w, "user")
    /\ ~JSONParse(ParamsGet(w.pairs, "user").s).threw
    /\ JSONParse(ParamsGet(w.pairs, "user").s).value.t = "object"

\* C1: every blob whose hash is the HMAC-SHA256 digest of its canonical
\* string under the configured signing key is accepted, and the result is
\* exactly the identity object its user value encodes.
C1_CorrectlySignedIsAccepted ==
    (/\ phase = "checked"
     /\ wire.t = "string"
     /\ DistinctKeys(wire)
     /\ CorrectlySigned(wire)
     /\ EncodesIdentity(wire))
    => result = JSONParse(ParamsGet(wire.pairs, "user").s)

\* the blob of the end-to-end scenario, signed by the issuer under a variant
ScenarioBlob(variant) ==
    LET pairs == <<<<"id", "123">>, <<"user", UserAnn>>>>
    IN QueryString(pairs \o <<<<"hash", Digest(variant, SECRET, pairs)>>>>)

\* C2: with secret TESTSECRET, the pairs {id: "123", user: {id: 42,
\* first_name: "Ann"}} and the Variant-A digest as hash, the result is the
\* identity {id: 42, first_name: "Ann"}.
C2_VariantAAccepted ==
    (/\ phase = "checked"
     /\ BOT_TOKEN = Str(SECRET)
     /\ wire = ScenarioBlob("A"))
    => result = Return(Obj(Num(42), Str("Ann"), Undefined, Undefined))

\* C3: once a blob has been accepted, the blob made from it by changing one
\* key or one value among the non-hash pairs (the canonical string then
\* differing) under the same hash, or by changing the hash under the same
\* pairs, is rejected.
C3_TamperedIsRejected ==
    (/\ phase = "checked"
     /\ alteration \in {"key", "value", "hash"}
     /\ prevResult # Rejected
     /\ alteration \in {"key", "value"} =>
            CanonicalString(NonHashPairs(wire))
                # CanonicalString(NonHashPairs(prevWire)))
    => result = Rejected

C3_Witness ==
    /\ phase = "checked"
    /\ alteration = "value"
    /\ prevResult = Return(Obj(Num(42), Str("Ann"), Undefined, Undefined))
    /\ ParamsGet(wire.pairs, "user") = Str(UserRoot)
    /\ result = Rejected

\* C9: a blob without a hash key, an empty initData and an absent initData
\* are all rejected, whatever the other pairs are.
C9_MissingHashIsRejected ==
    (/\ phase = "checked"
     /\ wire.t = "string" => ~HasKey(wire, "hash"))
    => result = Rejected

C9_Witness ==
    /\ phase = "checked"
    /\ BOT_TOKEN = Str(SECRET)
    /\ wire = QueryString(<<<<"user", UserRoot>>>>)
    /\ result = Rejected

\* the literal `user` text is not valid JSON
UserIsNotJSON(w) ==
    /\ w.t = "string"
    /\ HasKey(w, "user")
    /\ JSONParse(ParamsGet(w.pairs, "user").s).threw

\* C10: validateTelegramData never throws to its caller, and it returns
\* null when the shared secret is unset, when initData is absent or empty,
\* and when the user value is not valid JSON, also under a signature that
\* matches the literal pairs.
C10_FailuresAreRejections ==
    phase = "checked" =>
        /\ ~result.threw
        /\ (\/ BOT_TOKEN = Undefined
            \/ ~Truthy(wire)
            \/ UserIsNotJSON(wire)) => result = Rejected

C10_Witness ==
    /\ phase = "checked"
    /\ UserIsNotJSON(wire)
    /\ ~SecretKey.threw
    /\ ParamsGet(wire.pairs, "hash")
         = Str(HmacSha256(SecretKey.value.s, DataCheckString(NonHashPairs(wire))))
    /\ result = Rejected

\* C11: the string validateTelegramData signs lists the non-hash pairs in
\* ascending byte-wise order of their keys, whatever the keys are: it is
\* the canonical string of the pairs.
C11_KeysInByteWiseOrder ==
    (phase = "checked" /\ wire.t = "string")
    => DataCheckString(NonHashPairs(wire)) = CanonicalString(NonHashPairs(wire))

\* C12: two blobs that hold the same pairs, one with two
\* neighbouring pairs exchanged, give the same signed string and are both
\* accepted or both rejected.
C12_OrderIndependence ==
    (phase = "checked" /\ alteration = "order")
    => /\ DataCheckString(NonHashPairs(wire))
            = DataCheckString(NonHashPairs(prevWire))
       /\ (result = Rejected) <=> (prevResult = Rejected)

-----------------------------------------------------------------------------
(* Properties of the endpoints, checked under Spec *)

\* validateTelegramData rejects the initData of the request
RejectedInitData(r) == validateTelegramData(r.initData) = Rejected

\* the identity validateTelegramData finds in the initData of the request
\* is an administrator's
Administrator(r) ==
    LET user == validateTelegramData(r.initData).value
    IN Truthy(user) /\ StringOf(Field(user, "id")) \in ADMIN_IDS

AdminEndpoints == {"list", "delete", "update"}

\* the step is one of the request in slot s
Acts(s) == reqs'[s] # reqs[s] /\ reqs'[s].pc # "idle"

\* C4: a request whose blob has no `user` key carries no identity and is
\* answered with ok:false by every endpoint, also when the hash of the blob
\* is the correct digest of its pairs.
C4_NoUserIsUnauthenticated ==
    \A s \in Slots :
        (/\ reqs[s].pc = "done"
         /\ reqs[s].initData.t = "string"
         /\ ~HasKey(reqs[s].initData, "user"))
        => /\ ~Truthy(reqs[s].user)
           /\ ~reqs[s].resp.ok

\* C5: of a POST /api/report request whose initData validateTelegramData
\* rejects, no image file is in the uploads directory, neither before the
\* handler has validated the initData nor after it has answered.
C5_RejectedCreateWritesNoFile ==
    \A s \in Slots :
        (reqs[s].ep = "create" /\ RejectedInitData(reqs[s]))
        => \A k \in DOMAIN reqs[s].files : reqs[s].files[k] \notin uploads

\* C6: every step of a request whose initData validateTelegramData rejects
\* leaves the reports store unchanged, sends nothing to Telegram and
\* appends no sheet row; the handler of every endpoint answers the request
\* in its first step, with ok:false.
C6_RejectedHasNoEffect ==
    [][\A s \in Slots :
          (Acts(s) /\ RejectedInitData(reqs'[s])) =>
              /\ UNCHANGED <<reportsJson, telegramCalls, sheetRows>>
              /\ \/ reqs'[s].pc = "done" /\ ~reqs'[s].resp.ok
                 \/ reqs'[s].pc = "handler" /\ reqs'[s].ep = "create"]_vars

C6_Witness ==
    \E s \in Slots :
        /\ reqs[s].pc = "done"
        /\ reqs[s].ep = "update"
        /\ reqs[s].initData = BlobForged
        /\ reqs[s].resp = Denied(ErrNoAccess)
        /\ reportsJson = File(<<OldReport>>)
        /\ telegramCalls = <<>>
        /\ sheetRows = <<>>

\* C7: every step of a list, update or delete request whose verified
\* identity is not an administrator's (String(id) not in ADMIN_IDS) is the
\* answer ok:false and leaves the reports store and the uploads directory
\* unchanged; /api/is-admin answers is_admin true exactly for the
\* administrators.
C7_AdministratorGating ==
    [][\A s \in Slots :
          Acts(s) =>
              /\ (reqs'[s].ep \in AdminEndpoints /\ ~Administrator(reqs'[s])) =>
                     /\ reqs'[s].pc = "done"
                     /\ ~reqs'[s].resp.ok
                     /\ UNCHANGED <<reportsJson, uploads>>
              /\ reqs'[s].ep = "is-admin" =>
                     (reqs'[s].resp = [ok |-> TRUE, is_admin |-> TRUE]
                          <=> Administrator(reqs'[s]))]_vars

C7_Witness ==
    \E s \in Slots :
        /\ reqs[s].pc = "done"
        /\ reqs[s].ep = "delete"
        /\ reqs[s].user = Obj(Num(42), Str("Ann"), Undefined, Undefined)
        /\ "42" \notin ADMIN_IDS
        /\ reqs[s].resp = Denied(ErrNoAccess)
        /\ reportsJson = File(<<OldReport>>)
        /\ uploads = {OldFile}

\* C8: on the list, update and delete endpoints the answer to a verified
\* identity that is not an administrator's differs from the answer the
\* endpoint gives to a request whose initData fails verification.
C8_DenialIsDistinguishable ==
    \A s \in Slots :
        (/\ reqs[s].pc = "done"
         /\ reqs[s].ep \in AdminEndpoints
         /\ ~RejectedInitData(reqs[s])
         /\ EncodesIdentity(reqs[s].initData)
         /\ ~Administrator(reqs[s]))
        => \A d \in RequestBlobs :
               RejectedInitData([initData |-> d]) =>
                   AdminOnly(Identified(Arrived(reqs[s].ep, d, NoBody))).resp
                       # reqs[s].resp

-----------------------------------------------------------------------------
(* Properties of request sequences, checked under SessionSpec *)

\* the handler of the request has called validateTelegramData
Validated(r) == r.pc # "idle" /\ ~(r.ep = "create" /\ r.pc = "handler")

-----------------------------------------------------------------------------
(* Properties of requests in flight together, checked under PostSpec (POST
   /api/report requests alone) and RaceSpec (requests of every kind) *)

PostNext ==
    \/ ClientUpload
    \/ CreateHandler
    \/ CreateRead
    \/ CreateWrite
    \/ CreateTelegram
    \/ CreateSheets
    \/ Finish

PostSpec == RaceInit /\ [][PostNext]_vars

\* every request of the behaviour has been received and answered
Quiet == served = budget /\ \A s \in Slots : reqs[s].pc = "idle"

\* the reports of the store (none when the file is missing)
StoredReports == IF reportsJson.t = "file" THEN reportsJson.items ELSE <<>>

\* the number of entries of a sequence that carry the id
Copies(entries, id) == Cardinality({i \in DOMAIN entries : entries[i] = id})

StoredIds == [i \in DOMAIN StoredReports |-> StoredReports[i].id]

\* a spreadsheet row is appended in the step that answers the POST with
\* ok: true (lines 212-214), so the rows name the acknowledged reports
AcknowledgedIds == [i \in DOMAIN sheetRows |-> sheetRows[i].report]

\* C14: once every request has finished, the store holds every report whose
\* POST /api/report was answered ok: true (no DELETE of the behaviour names
\* the id of such a report): as many stored reports carry an id as
\* acknowledged POSTs returned it.
C14_NoAcknowledgedReportLost ==
    Quiet =>
        \A i \in DOMAIN AcknowledgedIds :
            Copies(StoredIds, AcknowledgedIds[i])
                >= Copies(AcknowledgedIds, AcknowledgedIds[i])

\* C15: a report whose DELETE has been answered ok: true is in the store in
\* no later state, also when a PUT or POST that read the store before the
\* DELETE wrote it writes afterwards (the deleted report is the only one
\* that ever has its id: it was created before the clock readings of the
\* behaviour).
C15_DeletedStaysDeleted ==
    \A id \in deleted : Copies(StoredIds, id) = 0

\* C16: no two reports of the store have the same id.
C16_ReportIdsAreUnique ==
    \A i, j \in DOMAIN StoredReports :
        StoredReports[i].id = StoredReports[j].id => i = j

-----------------------------------------------------------------------------
(* Properties of what a handler does to the store, checked under Spec *)

\* C17: when a POST /api/report is the only request the server has received
\* so far and its write of the store succeeds (it is then answered ok: true),
\* the store after the write is the store before the request, an absent file
\* counting as no reports, with the new report added at the end; also when
\* reading reports.json has failed.
C17_CreateOnlyAppends ==
    [][\A s \in Slots :
          (/\ served = 1
           /\ reqs[s].ep = "create"
           /\ reqs[s].pc = "write"
           /\ reqs'[s].pc = "telegram")
          => reportsJson' = File(Append(StoredReports, reqs[s].report))]_vars

\* the relays in the order of lines 211-212
RelayOrder == <<"telegram", "sheets">>

\* C18: a POST /api/report writes the report to the store before it calls a
\* relay (the step that writes puts the report at the end of the store and
\* no relay has been called yet), calls Telegram first and the spreadsheet
\* second, and calls neither when the write fails (the request is answered
\* ok: false with no relay called); a relay step leaves the store as it is,
\* and once the write has succeeded the only answer the request gets is
\* ok: true with the id of the report, whatever the relays return.
C18_StoreThenTelegramThenSheets ==
    /\ [](\A s \in Slots :
             reqs[s].ep = "create" =>
                 /\ Len(reqs[s].relays) <= Len(RelayOrder)
                 /\ \A k \in DOMAIN reqs[s].relays :
                        reqs[s].relays[k].to = RelayOrder[k]
                 /\ (reqs[s].pc = "done" /\ ~reqs[s].resp.ok)
                        => reqs[s].relays = <<>>)
    /\ [][\A s \in Slots :
             (reqs[s].ep = "create" /\ reqs'[s] # reqs[s]) =>
                 /\ (reqs[s].pc = "write" /\ reqs'[s].pc # "done") =>
                        /\ reportsJson'.t = "file"
                        /\ reportsJson'.items # <<>>
                        /\ reportsJson'.items[Len(reportsJson'.items)]
                               = reqs[s].report
                        /\ reqs'[s].relays = <<>>
                        /\ UNCHANGED <<telegramCalls, sheetRows>>
                 /\ (reqs[s].pc = "write" /\ reqs'[s].pc = "done") =>
                        /\ reqs'[s].resp = Denied(ErrSave)
                        /\ UNCHANGED <<reportsJson, telegramCalls, sheetRows>>
                 /\ Len(reqs'[s].relays) > Len(reqs[s].relays) =>
                        /\ reqs[s].pc \in {"telegram", "sheets"}
                        /\ UNCHANGED reportsJson
                 /\ reqs[s].pc \in {"telegram", "sheets"} =>
                        reqs'[s].resp \in
                            {NoResponse,
                             [ok |-> TRUE, id |-> reqs[s].report.id]}]_vars

C18_Witness ==
    \E s \in Slots :
        /\ reqs[s].pc = "done"
        /\ reqs[s].ep = "create"
        /\ Truthy(BOT_TOKEN)
        /\ telegramCalls # <<>>
        /\ sheetRows # <<>>
        /\ reqs[s].relays = <<[to |-> "telegram", ok |-> FALSE],
                              [to |-> "sheets", ok |-> FALSE]>>
        /\ reqs[s].resp.ok
        /\ reportsJson.t = "file"
        /\ \E i \in DOMAIN reportsJson.items :
               reportsJson.items[i].id = reqs[s].resp.id

\* entry i of the reports is the first with the id
FirstWithId(reports, id, i) ==
    /\ i \in DOMAIN reports
    /\ reports[i].id = id
    /\ \A j \in 1..(i - 1) : reports[j].id # id

NoneWithId(reports, id) == \A i \in DOMAIN reports : reports[i].id # id

\* after is before without its entry i, the others in their order
RemovedAt(before, after, i) ==
    /\ Len(after) = Len(before) - 1
    /\ \A k \in DOMAIN after :
           after[k] = IF k < i THEN before[k] ELSE before[k + 1]

KeptFields ==
    {"id", "user_id", "user_name", "park", "station", "incident_at",
     "created_at", "image_urls"}

\* C20: an administrator's PUT /api/report/:id works on the store it has
\* read; when it is answered ok: true, the store it has written is the store
\* it read but for the first report whose id is the path id, of which title
\* and description are the ones of the request where the request has them,
\* and else as they were, updated_at is a reading of the clock, and the
\* other fields are as they were; and when no report of the store has the
\* id, the request is answered ok: false and the store stays as it is.
C20_UpdateChangesThreeFields ==
    [][\A s \in Slots :
          (reqs[s].ep = "update" /\ reqs'[s] # reqs[s]) =>
              /\ (reqs[s].pc = "read" /\ reqs'[s].pc # "done") =>
                     /\ reportsJson = File(reqs'[s].data)
                     /\ UNCHANGED reportsJson
              /\ (reqs'[s].pc = "done" /\ reqs'[s].resp.ok) =>
                     /\ reqs[s].pc = "write"
                     /\ reportsJson'.t = "file"
                     /\ Len(reportsJson'.items) = Len(reqs[s].data)
                     /\ \E i \in DOMAIN reqs[s].data :
                          LET before == reqs[s].data[i]
                              after == reportsJson'.items[i]
                          IN /\ FirstWithId(reqs[s].data, reqs[s].id, i)
                             /\ \A k \in DOMAIN reqs[s].data \ {i} :
                                    reportsJson'.items[k] = reqs[s].data[k]
                             /\ \A f \in KeptFields : after[f] = before[f]
                             /\ after.title =
                                    IF reqs[s].title # Undefined
                                    THEN reqs[s].title ELSE before.title
                             /\ after.description =
                                    IF reqs[s].description # Undefined
                                    THEN reqs[s].description
                                    ELSE before.description
                             /\ after.updated_at \in
                                    {Str(ISOString(t)) : t \in 1..now}
              /\ (reqs[s].pc = "read"
                      /\ NoneWithId(StoredReports, reqs[s].id)) =>
                     /\ reqs'[s].pc = "done"
                     /\ ~reqs'[s].resp.ok
                     /\ UNCHANGED reportsJson]_vars

C20_Witness ==
    \E s \in Slots :
        /\ reqs[s].pc = "done"
        /\ reqs[s].ep = "update"
        /\ Administrator(reqs[s])
        /\ reqs[s].resp = [ok |-> TRUE]
        /\ reportsJson.t = "file"
        /\ Len(reportsJson.items) = 3
        /\ reportsJson.items[1].title = OldReport.title
        /\ reportsJson.items[1].description = Str("D2")
        /\ reportsJson.items[1].updated_at # Undefined
        /\ reportsJson.items[2] = TwinReport
        /\ reportsJson.items[3] = LaterReport

\* C21: when the handler of POST /api/report runs for a request whose
\* initData validateTelegramData accepts and whose park or station is absent
\* or empty, that step answers the request ok: false and leaves the store
\* and both relays as they are; the request, being answered, takes no
\* further step, and it has called no relay.
C21_MissingParkOrStationIsRefused ==
    /\ [](\A s \in Slots :
             (reqs[s].pc = "done" /\ reqs[s].resp = Denied(ErrParkStation))
                 => reqs[s].ep = "create" /\ reqs[s].relays = <<>>)
    /\ [][\A s \in Slots :
             (/\ reqs[s].ep = "create"
              /\ reqs[s].pc = "handler"
              /\ reqs'[s] # reqs[s]
              /\ Truthy(validateTelegramData(reqs[s].initData).value)
              /\ (~Truthy(reqs[s].park) \/ ~Truthy(reqs[s].station)))
             => /\ reqs'[s].pc = "done"
                /\ ~reqs'[s].resp.ok
                /\ UNCHANGED <<reportsJson, telegramCalls, sheetRows>>]_vars

C21_Witness ==
    \E s \in Slots :
        /\ reqs[s].pc = "done"
        /\ reqs[s].ep = "create"
        /\ reqs[s].initData = BlobAnn
        /\ Truthy(reqs[s].user)
        /\ reqs[s].resp = Denied(ErrParkStation)
        /\ reportsJson = File(<<OldReport>>)
        /\ telegramCalls = <<>>
        /\ sheetRows = <<>>

\* items holds the reports, the last one first
LastFirst(reports, items) ==
    /\ Len(items) = Len(reports)
    /\ \A i \in DOMAIN items : items[i] = reports[Len(reports) + 1 - i]

\* C22: the step that answers an administrator's GET /api/reports leaves the
\* store as it is and answers ok: true, with every report of the store, the
\* last stored first, or with no items when reading the store has failed;
\* with no items when reports.json is missing.
C22_ListIsTheStoreReversed ==
    [][\A s \in Slots :
          (reqs[s].ep = "list" /\ reqs[s].pc = "read" /\ reqs'[s] # reqs[s])
          => /\ reqs'[s].pc = "done"
             /\ reqs'[s].resp.ok
             /\ \/ reportsJson.t = "file"
                     /\ LastFirst(reportsJson.items, reqs'[s].resp.items)
                \/ reqs'[s].resp.items = <<>>
             /\ reportsJson.t = "missing" => reqs'[s].resp.items = <<>>
             /\ UNCHANGED reportsJson]_vars

C22_Witness ==
    \E s \in Slots :
        /\ reqs[s].pc = "done"
        /\ reqs[s].ep = "list"
        /\ Administrator(reqs[s])
        /\ reqs[s].resp =
               [ok |-> TRUE, items |-> <<LaterReport, TwinReport, OldReport>>]
        /\ reportsJson = File(<<OldReport, TwinReport, LaterReport>>)

-----------------------------------------------------------------------------
(* Routing: express walks the layers in the order app.use and app.get have *)
(* registered them, and the first layer that answers ends the walk.  A     *)
(* path is the sequence of its segments: <<"api", "reports">> is           *)
(* /api/reports and <<>> is /.                                             *)

\* the layers in registration order, lines 17-23 and 172-297
Stack ==
    <<"cors", "json", "static", "uploads", "is-admin", "create", "list",
      "delete", "update", "fallback", "healthz">>

\* the files of public/ and of uploads/ that a request names
PublicFiles == {<<"index.html">>}
UploadedNames == {"0-1.jpg"}

Methods == {"GET", "POST", "PUT", "DELETE"}
Paths ==
    {<<>>, <<"index.html">>, <<"healthz">>, <<"about">>, <<"api">>,
     <<"api", "is-admin">>, <<"api", "reports">>, <<"api", "report">>,
     <<"api", "report", "DEF-0">>, <<"api", "nothing">>,
     <<"uploads", "0-1.jpg">>, <<"uploads", "none.jpg">>}

\* the path begins with /api/, the negative lookahead of line 292
StartsWithApi(path) == Len(path) >= 2 /\ path[1] = "api"

\* the layer answers the request; otherwise it calls next()
Handles(layer, method, path) ==
    CASE layer = "cors" -> FALSE
      [] layer = "json" -> FALSE
      [] layer = "static" ->
             method = "GET" /\ (path = <<>> \/ path \in PublicFiles)
      [] layer = "uploads" ->
             /\ method = "GET"
             /\ Len(path) = 2
             /\ path[1] = "uploads"
             /\ path[2] \in UploadedNames
      [] layer = "is-admin" -> method = "GET" /\ path = <<"api", "is-admin">>
      [] layer = "create" -> method = "POST" /\ path = <<"api", "report">>
      [] layer = "list" -> method = "GET" /\ path = <<"api", "reports">>
      [] layer = "delete" ->
             method = "DELETE" /\ Len(path) = 3 /\ SubSeq(path, 1, 2) = <<"api", "report">>
      [] layer = "update" ->
             method = "PUT" /\ Len(path) = 3 /\ SubSeq(path, 1, 2) = <<"api", "report">>
      [] layer = "fallback" -> method = "GET" /\ ~StartsWithApi(path)
      [] layer = "healthz" -> method = "GET" /\ path = <<"healthz">>

\* what the layer sends: a file, the json of line 297, or the answer of the
\* handler of an /api/ route
Sends(layer, path) ==
    CASE layer = "static" ->
             [file |-> IF path = <<>> THEN <<"index.html">> ELSE path]
      [] layer = "uploads" -> [file |-> path]
      [] layer = "fallback" -> [file |-> <<"index.html">>]
      [] layer = "healthz" -> [json |-> [ok |-> TRUE]]
      [] OTHER -> [handler |-> layer]

Unrouted ==
    <<BOT_TOKEN, ADMIN_IDS, now, reportsJson, uploads, telegramCalls, sheetRows,
      reqs, served, budget, deleted, verifierVars>>

\* a request comes in
RouterReceive ==
    \E method \in Methods, path \in Paths :
        /\ dispatch.st = "idle"
        /\ dispatch' = [NotRouting EXCEPT !.st = "routing", !.method = method,
                                          !.path = path, !.layer = 1]
        /\ UNCHANGED Unrouted

\* next(): the layer does not answer and the walk goes on
RouterNext ==
    /\ dispatch.st = "routing"
    /\ dispatch.layer <= Len(Stack)
    /\ ~Handles(Stack[dispatch.layer], dispatch.method, dispatch.path)
    /\ dispatch' = [dispatch EXCEPT !.layer = @ + 1]
    /\ UNCHANGED Unrouted

\* the layer answers
RouterHandle ==
    /\ dispatch.st = "routing"
    /\ dispatch.layer <= Len(Stack)
    /\ Handles(Stack[dispatch.layer], dispatch.method, dispatch.path)
    /\ dispatch' = [dispatch EXCEPT
                       !.st = "answered", !.by = Stack[dispatch.layer],
                       !.resp = Sends(Stack[dispatch.layer], dispatch.path)]
    /\ UNCHANGED Unrouted

\* no layer has answered: express answers 404
RouterNotFound ==
    /\ dispatch.st = "routing"
    /\ dispatch.layer > Len(Stack)
    /\ dispatch' = [dispatch EXCEPT !.st = "answered", !.by = "finalhandler",
                                    !.resp = [status |-> 404]]
    /\ UNCHANGED Unrouted

\* the response has been sent
RouterSent ==
    /\ dispatch.st = "answered"
    /\ dispatch' = NotRouting
    /\ UNCHANGED Unrouted

RouterStep ==
    \/ RouterReceive
    \/ RouterNext
    \/ RouterHandle
    \/ RouterNotFound
    \/ RouterSent

RouterInit == ClientInit(MaxInFlight, 0)
RouterSpec == RouterInit /\ [][RouterStep]_vars

\* C23: a GET /healthz request is answered by the health handler of line
\* 297, with { ok: true }.
C23_HealthzIsReachable ==
    (/\ dispatch.st = "answered"
     /\ dispatch.method = "GET"
     /\ dispatch.path = <<"healthz">>)
    => /\ dispatch.by = "healthz"
       /\ dispatch.resp = [json |-> [ok |-> TRUE]]

=============================================================================
